---- MODULE Spec2Model ----
(***************************************************************************)
(* RPi.GPIO compatibility layer of ArmbianIO (python/RPi/GPIO.py).         *)
(*                                                                         *)
(* The module globals _gpio_warnings, _mode, _exports and _events are the  *)
(* variables gpio_warnings, mode, exports and events.  The ArmbianIO       *)
(* library the module calls (AIOInit, AIOAddGPIO, ...) is modelled by what *)
(* it holds on behalf of the caller: the open session, the added pins with *)
(* their direction and level, the edge flags and the callbacks.            *)
(*                                                                         *)
(* Every public function is one action, except wait_for_edge, whose        *)
(* polling loop is one action per iteration.  A call leaves its outcome in *)
(* "last" (a raised exception is the err field) until the caller has taken *)
(* it, and the caller makes its next call after that.                      *)
(***************************************************************************)
EXTENDS Integers, Sequences, FiniteSets, TLC

(* Bounds of the model. *)
NumChannels == 2
MaxList == 2
MaxTimeout == 1

(* Constants of GPIO.py.  Python's True and False are the integers 1 and   *)
(* 0 (bool is a subtype of int), which is what AIOAddGPIO(channel,         *)
(* initial) and "value == trigger" see; None is a value outside every      *)
(* other domain.                                                           *)
OUT == 0
DirIN == 1    \* IN of GPIO.py (IN is a reserved word here)
HIGH == 1
LOW == 0
BOARD == 10
BCM == 11
None == -1

(* button.py: the callable a caller hands over as callback. *)
buttonCallback == 1

(* armbianio.h: the edge constants GPIO.py re-exports. *)
FALLING == 0
RISING == 1
BOTH == 2
NONE == 3

Channels == 1..NumChannels
Directions == {OUT, DirIN}
Levels == {LOW, HIGH}
Triggers == {RISING, FALLING, BOTH}
Callbacks == {buttonCallback}
Timeouts == (0 - 1)..MaxTimeout
ElapsedCap == MaxTimeout + 1

(* A mode outside [BCM, BOARD], for the assert of setmode. *)
OtherMode == BOARD + BCM
ModeArgs == {BOARD, BCM, OtherMode}

(* The channel lists a caller passes: every list of up to MaxList          *)
(* channels, a channel named twice included.                               *)
RECURSIVE ListsUpTo(_)
ListsUpTo(n) ==
    IF n = 0 THEN {<<>>}
    ELSE LET shorter == ListsUpTo(n - 1)
         IN  shorter \cup
             {Append(s, c) : s \in {t \in shorter : Len(t) = n - 1}, c \in Channels}

ChannelLists == ListsUpTo(MaxList)

Distinct(s) == \A i, j \in DOMAIN s : i /= j => s[i] /= s[j]

VARIABLES
    gpio_warnings,  \* _gpio_warnings
    mode,           \* _mode: None, BOARD or BCM
    exports,        \* _exports: channel -> direction
    events,         \* _events: channel -> trigger
    aio_open,       \* ArmbianIO: a session opened by AIOInit and not shut down
    pins,           \* ArmbianIO: added pin -> [dir, level driven when an output]
    edge,           \* ArmbianIO: channel -> edge flag written by AIOWriteGPIOEdge
    cbs,            \* ArmbianIO: channel -> [trigger, cb] of the registered callback
    wait,           \* the locals of the wait_for_edge call in progress, if any:
                    \* pc is "idle" (none), "loop" or "done" (it has ended)
    last            \* the call that has just ended: op, arg, err (the exception
                    \* or "ok"), ret, acted (it got as far as a call of
                    \* ArmbianIO) and calls (the ArmbianIO calls it made);
                    \* NoCall once the caller has taken it

vars == <<gpio_warnings, mode, exports, events, aio_open, pins, edge, cbs, wait, last>>

(* The program state an operation works on, with the trace of ArmbianIO    *)
(* calls the operation has made so far.                                    *)
Cur ==
    [gpio_warnings |-> gpio_warnings, mode |-> mode, exports |-> exports,
     events |-> events, aio_open |-> aio_open, pins |-> pins, edge |-> edge,
     cbs |-> cbs, calls |-> <<>>]

Put(f, k, v) == [x \in (DOMAIN f) \cup {k} |-> IF x = k THEN v ELSE f[x]]
Del(f, k) == [x \in (DOMAIN f) \ {k} |-> f[x]]
Empty == [x \in {} |-> 0]

Ok(st) == [st |-> st, err |-> "ok", ret |-> None]
Raise(st, e) == [st |-> st, err |-> e, ret |-> None]
Called(st, c) == [st EXCEPT !.calls = Append(@, c)]

(* ---------------------------------------------------------------------- *)
(* ArmbianIO calls                                                         *)
(* ---------------------------------------------------------------------- *)

AIOInit(st, rc) ==
    Called([st EXCEPT !.aio_open = (@ \/ rc = 1)], <<"AIOInit", rc>>)

AIOShutdown(st) ==
    Called([st EXCEPT !.aio_open = FALSE], <<"AIOShutdown">>)

(* AIOAddGPIO(pin, direction): GPIO.py hands its own OUT and IN over as    *)
(* the direction (line 100), so 0 is an output and 1 an input here too.    *)
(* An output drives a level, lv when it is added; an input drives none     *)
(* (its level field stays LOW and is never read).                          *)
AIOAddGPIO(st, channel, direction, lv) ==
    Called([st EXCEPT !.pins = Put(@, channel,
                [dir |-> direction, level |-> IF direction = OUT THEN lv ELSE LOW])],
           <<"AIOAddGPIO", channel, direction>>)

AIORemoveGPIO(st, channel) ==
    Called([st EXCEPT !.pins = Del(@, channel)], <<"AIORemoveGPIO", channel>>)

(* A write sets the level an output drives. *)
AIOWriteGPIO(st, channel, state) ==
    Called([st EXCEPT !.pins = IF channel \in DOMAIN @ /\ @[channel].dir = OUT
                                 THEN [@ EXCEPT ![channel].level = state]
                                 ELSE @],
           <<"AIOWriteGPIO", channel, state>>)

(* The values a read of the pin can give: the level an output drives; any  *)
(* level for an input, whose level is the world's, and for a pin ArmbianIO *)
(* does not hold.                                                          *)
AIOReadGPIO(st, channel) ==
    IF channel \in DOMAIN st.pins /\ st.pins[channel].dir = OUT
    THEN {st.pins[channel].level}
    ELSE Levels

AIOWriteGPIOEdge(st, channel, trigger) ==
    Called([st EXCEPT !.edge[channel] = trigger], <<"AIOWriteGPIOEdge", channel, trigger>>)

AIOAddGPIOCallback(st, channel, trigger, cb) ==
    Called([st EXCEPT !.cbs = Put(@, channel, [trigger |-> trigger, cb |-> cb])],
           <<"AIOAddGPIOCallback", channel, trigger>>)

AIORemoveGPIOCallback(st, channel) ==
    Called([st EXCEPT !.cbs = Del(@, channel)], <<"AIORemoveGPIOCallback", channel>>)

(* ---------------------------------------------------------------------- *)
(* GPIO.py                                                                 *)
(* ---------------------------------------------------------------------- *)

(* _check_configured written with "if not configured": OUT is 0, which is  *)
(* falsy, so an output channel counts as not configured.                   *)
check_configured_falsy(st, channel, direction) ==
    IF channel \notin DOMAIN st.exports \/ st.exports[channel] = 0
    THEN "ChannelNotConfigured"
    ELSE IF direction /= None /\ direction /= st.exports[channel] THEN "WrongDirection"
    ELSE "ok"

(* _check_configured: the error it raises, or "ok". *)
check_configured(st, channel, direction) ==
    IF channel \notin DOMAIN st.exports THEN "ChannelNotConfigured"
    ELSE IF direction /= None /\ direction /= st.exports[channel] THEN "WrongDirection"
    ELSE "ok"

(* setmode that records the mode before it looks at the result of AIOInit. *)
setmode_records_first(st, m, rc) ==
    LET s1 == IF st.mode = None THEN AIOInit(st, rc) ELSE st
        s2 == IF m \in {BCM, BOARD} THEN [s1 EXCEPT !.mode = m] ELSE s1
    IN  IF st.mode = None /\ rc /= 1 THEN Raise(s2, "BoardNotDetected")
        ELSE IF m \notin {BCM, BOARD} THEN Raise(s2, "InvalidArgument")
        ELSE Ok(s2)

setmode(st, m, rc) ==
    LET s1 == IF st.mode = None THEN AIOInit(st, rc) ELSE st
    IN  IF st.mode = None /\ rc /= 1 THEN Raise(s1, "BoardNotDetected")
        ELSE IF m \notin {BCM, BOARD} THEN Raise(s1, "InvalidArgument")
        ELSE Ok([s1 EXCEPT !.mode = m])

setwarnings(st, enabled) == Ok([st EXCEPT !.gpio_warnings = enabled])

(* setup of one channel without the check of line 95: a configured channel *)
(* is configured again.                                                    *)
setup_channel_overwrites(st, channel, direction, initial, lv) ==
    IF st.mode = None THEN Raise(st, "ModeNotSet")
    ELSE LET how == IF direction = OUT /\ initial /= None THEN initial ELSE direction
             s1 == AIOAddGPIO(st, channel, how, lv)
         IN  Ok([s1 EXCEPT !.exports = Put(@, channel, direction)])

(* setup of one channel, lines 86-87 and 95-101; lv is the level the new   *)
(* pin has (the pins one call adds start at the same level).               *)
setup_channel(st, channel, direction, initial, lv) ==
    IF st.mode = None THEN Raise(st, "ModeNotSet")
    ELSE IF channel \in DOMAIN st.exports THEN Raise(st, "AlreadyConfigured")
    ELSE LET how == IF direction = OUT /\ initial /= None THEN initial ELSE direction
             s1 == AIOAddGPIO(st, channel, how, lv)
         IN  Ok([s1 EXCEPT !.exports = Put(@, channel, direction)])

(* The loop of lines 92-93: the first exception ends it. *)
RECURSIVE setup_each(_, _, _, _, _)
setup_each(st, channels, direction, initial, lv) ==
    IF channels = <<>> THEN Ok(st)
    ELSE LET r == setup_channel(st, Head(channels), direction, initial, lv)
         IN  IF r.err /= "ok" THEN r
             ELSE setup_each(r.st, Tail(channels), direction, initial, lv)

(* setup of a list: after the loop, line 101 runs with the list itself as  *)
(* the key of _exports, and a list is unhashable.                          *)
setup_list(st, channels, direction, initial, lv) ==
    IF st.mode = None THEN Raise(st, "ModeNotSet")
    ELSE LET r == setup_each(st, channels, direction, initial, lv)
         IN  IF r.err /= "ok" THEN r ELSE Raise(r.st, "TypeError")

(* input: v is the value AIOReadGPIO gives. *)
input(st, channel, v) ==
    LET e == check_configured(st, channel, None)
    IN  IF e /= "ok" THEN Raise(st, e)
        ELSE [st |-> Called(st, <<"AIOReadGPIO", channel>>), err |-> "ok", ret |-> v]

(* output of one channel that checks the entry and not its direction. *)
output_channel_any_direction(st, channel, state) ==
    LET e == check_configured(st, channel, None)
    IN  IF e /= "ok" THEN Raise(st, e)
        ELSE Ok(AIOWriteGPIO(st, channel, state))

output_channel(st, channel, state) ==
    LET e == check_configured(st, channel, OUT)
    IN  IF e /= "ok" THEN Raise(st, e)
        ELSE Ok(AIOWriteGPIO(st, channel, state))

RECURSIVE output_list(_, _, _)
output_list(st, channels, state) ==
    IF channels = <<>> THEN Ok(st)
    ELSE LET r == output_channel(st, Head(channels), state)
         IN  IF r.err /= "ok" THEN r
             ELSE output_list(r.st, Tail(channels), state)

(* ---------------------------------------------------------------------- *)
(* Edge events                                                             *)
(* ---------------------------------------------------------------------- *)

(* add_event_detect that checks the entry of the channel and not its       *)
(* direction.                                                              *)
add_event_detect_any_direction(st, channel, trigger, callback) ==
    LET e == check_configured(st, channel, None)
    IN  IF e /= "ok" THEN Raise(st, e)
        ELSE IF trigger \notin {RISING, FALLING, BOTH} THEN Raise(st, "InvalidArgument")
        ELSE IF channel \in DOMAIN st.events THEN Raise(st, "EventConflict")
        ELSE LET s1 == [st EXCEPT !.events = Put(@, channel, trigger)]
             IN  IF callback /= None
                 THEN Ok(AIOAddGPIOCallback(s1, channel, trigger, callback))
                 ELSE Ok(s1)

add_event_detect(st, channel, trigger, callback) ==
    LET e == check_configured(st, channel, DirIN)
    IN  IF e /= "ok" THEN Raise(st, e)
        ELSE IF trigger \notin {RISING, FALLING, BOTH} THEN Raise(st, "InvalidArgument")
        ELSE IF channel \in DOMAIN st.events THEN Raise(st, "EventConflict")
        ELSE LET s1 == [st EXCEPT !.events = Put(@, channel, trigger)]
             IN  IF callback /= None
                 THEN Ok(AIOAddGPIOCallback(s1, channel, trigger, callback))
                 ELSE Ok(s1)

(* remove_event_detect that deletes the entry and leaves the callback of   *)
(* the channel registered.                                                 *)
remove_event_detect_keeps_callback(st, channel) ==
    LET e == check_configured(st, channel, DirIN)
    IN  IF e /= "ok" THEN Raise(st, e)
        ELSE IF channel \in DOMAIN st.events
        THEN Ok([st EXCEPT !.events = Del(@, channel)])
        ELSE Raise(st, "NoEventRegistered")

(* remove_event_detect without the check of line 179. *)
remove_event_detect_unchecked(st, channel) ==
    IF channel \in DOMAIN st.events
    THEN LET s1 == AIORemoveGPIOCallback(st, channel)
         IN  Ok([s1 EXCEPT !.events = Del(@, channel)])
    ELSE Raise(st, "NoEventRegistered")

remove_event_detect(st, channel) ==
    LET e == check_configured(st, channel, DirIN)
    IN  IF e /= "ok" THEN Raise(st, e)
        ELSE IF channel \in DOMAIN st.events
        THEN LET s1 == AIORemoveGPIOCallback(st, channel)
             IN  Ok([s1 EXCEPT !.events = Del(@, channel)])
        ELSE Raise(st, "NoEventRegistered")

add_event_callback(st, channel, callback) ==
    LET e == check_configured(st, channel, DirIN)
    IN  IF e /= "ok" THEN Raise(st, e)
        ELSE IF channel \in DOMAIN st.events
        THEN Ok(AIOAddGPIOCallback(st, channel, st.events[channel], callback))
        ELSE Raise(st, "NoEventRegistered")

(* event_detected without the check of line 208. *)
event_detected_unchecked(st, channel) == Raise(st, "NotSupported")

event_detected(st, channel) ==
    LET e == check_configured(st, channel, DirIN)
    IN  IF e /= "ok" THEN Raise(st, e) ELSE Raise(st, "NotSupported")

(* ---------------------------------------------------------------------- *)
(* cleanup                                                                 *)
(* ---------------------------------------------------------------------- *)

(* cleanup of one channel that releases the pin and forgets the event. *)
cleanup_channel_keeps_event(st, channel) ==
    LET e == check_configured(st, channel, None)
    IN  IF e /= "ok" THEN Raise(st, e)
        ELSE LET s2 == AIORemoveGPIO(st, channel)
             IN  Ok([s2 EXCEPT !.exports = Del(@, channel)])

(* cleanup of one channel without line 232: the pin stays in ArmbianIO. *)
cleanup_channel_leaks_pin(st, channel) ==
    LET e == check_configured(st, channel, None)
    IN  IF e /= "ok" THEN Raise(st, e)
        ELSE LET s1 == IF channel \in DOMAIN st.events /\ st.events[channel] /= None
                       THEN [AIORemoveGPIOCallback(st, channel)
                                EXCEPT !.events = Del(@, channel)]
                       ELSE st
             IN  Ok([s1 EXCEPT !.exports = Del(@, channel)])

cleanup_channel(st, channel) ==
    LET e == check_configured(st, channel, None)
    IN  IF e /= "ok" THEN Raise(st, e)
        ELSE LET s1 == IF channel \in DOMAIN st.events /\ st.events[channel] /= None
                       THEN [AIORemoveGPIOCallback(st, channel)
                                EXCEPT !.events = Del(@, channel)]
                       ELSE st
                 s2 == AIORemoveGPIO(s1, channel)
             IN  Ok([s2 EXCEPT !.exports = Del(@, channel)])

(* The loop of lines 223-224: an exception of cleanup(ch) leaves the loop. *)
RECURSIVE cleanup_list(_, _)
cleanup_list(st, channels) ==
    IF channels = <<>> THEN Ok(st)
    ELSE LET r == cleanup_channel(st, Head(channels))
         IN  IF r.err /= "ok" THEN r
             ELSE cleanup_list(r.st, Tail(channels))

(* cleanup() that leaves the ArmbianIO session open. *)
cleanup_all_no_shutdown(st, keys) ==
    LET r == cleanup_list(st, keys)
    IN  IF r.err /= "ok" THEN r
        ELSE LET s1 == setwarnings(r.st, TRUE).st
             IN  Ok([s1 EXCEPT !.mode = None])

(* cleanup(): keys is list(_exports.keys()), in the order the dict gives. *)
cleanup_all(st, keys) ==
    LET r == cleanup_list(st, keys)
    IN  IF r.err /= "ok" THEN r
        ELSE LET s1 == setwarnings(r.st, TRUE).st
                 s2 == [s1 EXCEPT !.mode = None]
             IN  Ok(AIOShutdown(s2))

(* The orders list(_exports.keys()) can have. *)
KeyOrders(f) == {s \in [1..Cardinality(DOMAIN f) -> DOMAIN f] : Distinct(s)}

(* ---------------------------------------------------------------------- *)
(* wait_for_edge                                                           *)
(* ---------------------------------------------------------------------- *)

IdleWait ==
    [pc |-> "idle", channel |-> None, trigger |-> None, timeout |-> None,
     originalValue |-> None, valueExit |-> FALSE, timeoutExit |-> FALSE,
     elapsed |-> 0, level |-> None, rebased |-> FALSE]

(* wait_for_edge without the test of line 130. *)
wait_for_edge_enter_no_conflict(st, channel, trigger) ==
    LET e == check_configured(st, channel, DirIN)
    IN  IF e /= "ok" THEN Raise(st, e)
        ELSE IF trigger \notin {RISING, FALLING, BOTH} THEN Raise(st, "InvalidArgument")
        ELSE Ok(AIOWriteGPIOEdge(st, channel, trigger))

(* Lines 127-132: the checks, then the edge flag is armed. *)
wait_for_edge_enter(st, channel, trigger) ==
    LET e == check_configured(st, channel, DirIN)
    IN  IF e /= "ok" THEN Raise(st, e)
        ELSE IF trigger \notin {RISING, FALLING, BOTH} THEN Raise(st, "InvalidArgument")
        ELSE IF channel \in DOMAIN st.events THEN Raise(st, "EventConflict")
        ELSE Ok(AIOWriteGPIOEdge(st, channel, trigger))

(* Lines 133-138: the locals before the loop; v is the first read.  The    *)
(* local "value" is the v of an iteration: nothing reads it after one.     *)
(* With the locals goes the level the watched input has in the world, v at *)
(* the first read, and whether line 146 has moved originalValue without    *)
(* ending the loop (rebased).                                              *)
wait_for_edge_locals(channel, trigger, timeout, v) ==
    [pc |-> "loop", channel |-> channel, trigger |-> trigger, timeout |-> timeout,
     originalValue |-> v, valueExit |-> FALSE, timeoutExit |-> FALSE,
     elapsed |-> 0, level |-> v, rebased |-> FALSE]

Min(a, b) == IF a < b THEN a ELSE b

(* The iteration with "if timeout > 0" never true: the clock is not read. *)
wait_for_edge_poll_no_clock(w, v, d) ==
    LET changed == v /= w.originalValue
    IN  [w EXCEPT
            !.valueExit = IF changed
                          THEN (IF w.trigger = BOTH THEN TRUE ELSE v = w.trigger)
                          ELSE @,
            !.originalValue = IF changed /\ w.trigger /= BOTH THEN v ELSE @,
            !.rebased = @ \/ (changed /\ w.trigger /= BOTH /\ v /= w.trigger)]

(* The iteration with line 146 under "if valueExit": a change in the wrong *)
(* direction leaves originalValue where it was.                            *)
wait_for_edge_poll_no_rebase(w, v, d) ==
    LET changed == v /= w.originalValue
        exit == changed /\ (w.trigger = BOTH \/ v = w.trigger)
    IN  [w EXCEPT
            !.valueExit = IF changed THEN exit ELSE @,
            !.originalValue = IF exit /\ w.trigger /= BOTH THEN v ELSE @,
            !.timeoutExit = IF w.timeout > 0 THEN w.elapsed > w.timeout ELSE @,
            !.elapsed = IF w.timeout > 0 THEN Min(@ + d, ElapsedCap) ELSE @]

(* Lines 140-151, one iteration: v is the read, elapsed is time.time() -   *)
(* startTime in polling intervals (the clock is read only when timeout >   *)
(* 0), and the sleep lets d >= 1 of them pass.                             *)
wait_for_edge_poll(w, v, d) ==
    LET changed == v /= w.originalValue
    IN  [w EXCEPT
            !.valueExit = IF changed
                          THEN (IF w.trigger = BOTH THEN TRUE ELSE v = w.trigger)
                          ELSE @,
            !.originalValue = IF changed /\ w.trigger /= BOTH THEN v ELSE @,
            !.rebased = @ \/ (changed /\ w.trigger /= BOTH /\ v /= w.trigger),
            !.timeoutExit = IF w.timeout > 0 THEN w.elapsed > w.timeout ELSE @,
            !.elapsed = IF w.timeout > 0 THEN Min(@ + d, ElapsedCap) ELSE @]

(* Line 139. *)
wait_for_edge_looping(w) == ~w.valueExit /\ ~w.timeoutExit

(* wait_for_edge that returns without line 152. *)
wait_for_edge_leave_armed(st, w) ==
    [st |-> st, err |-> "ok", ret |-> w.channel]

(* Lines 152-153. *)
wait_for_edge_leave(st, w) ==
    [st |-> AIOWriteGPIOEdge(st, w.channel, NONE), err |-> "ok", ret |-> w.channel]

(* ---------------------------------------------------------------------- *)
(* The state machine                                                       *)
(* ---------------------------------------------------------------------- *)

NoCall ==
    [op |-> "none", arg |-> <<>>, err |-> "ok", ret |-> None, acted |-> FALSE,
     calls |-> <<>>]

Init ==
    /\ gpio_warnings = TRUE
    /\ mode = None
    /\ exports = Empty
    /\ events = Empty
    /\ aio_open = FALSE
    /\ pins = Empty
    /\ edge = [c \in Channels |-> NONE]
    /\ cbs = Empty
    /\ wait = IdleWait
    /\ last = NoCall

(* The call op(arg) ends with result r: the state it leaves, and what the  *)
(* caller gets.                                                            *)
Finish(op, arg, r) ==
    /\ gpio_warnings' = r.st.gpio_warnings
    /\ mode' = r.st.mode
    /\ exports' = r.st.exports
    /\ events' = r.st.events
    /\ aio_open' = r.st.aio_open
    /\ pins' = r.st.pins
    /\ edge' = r.st.edge
    /\ cbs' = r.st.cbs
    /\ last' = [op |-> op, arg |-> arg, err |-> r.err, ret |-> r.ret,
                acted |-> r.st.calls /= <<>>, calls |-> r.st.calls]

(* A call can be made: none is blocked in wait_for_edge, and the outcome   *)
(* of the one before has been taken.                                       *)
Idle == wait.pc = "idle" /\ last = NoCall

(* The caller takes the outcome of the call that has just ended, and the   *)
(* locals of that call are gone (those of a wait_for_edge call another     *)
(* thread still runs stay).                                                *)
Return ==
    /\ last /= NoCall
    /\ last' = NoCall
    /\ wait' = IF wait.pc = "loop" THEN wait ELSE IdleWait
    /\ UNCHANGED <<gpio_warnings, mode, exports, events, aio_open, pins, edge, cbs>>

GetMode ==
    /\ Finish("getmode", <<>>,
              [st |-> Cur, err |-> "ok", ret |-> mode])
    /\ UNCHANGED wait

SetMode(m, rc) ==
    /\ Finish("setmode", <<m>>,
              setmode(Cur, m, rc))
    /\ UNCHANGED wait

SetWarnings(enabled) ==
    /\ Finish("setwarnings", <<enabled>>,
              setwarnings(Cur, enabled))
    /\ UNCHANGED wait

Setup(channel, direction, initial, lv) ==
    /\ Finish("setup", <<channel, direction, initial>>,
              setup_channel(Cur, channel, direction, initial, lv))
    /\ UNCHANGED wait

SetupList(channels, direction, initial, lv) ==
    /\ Finish("setup_list", <<channels, direction, initial>>,
              setup_list(Cur, channels, direction, initial, lv))
    /\ UNCHANGED wait

Input(channel) ==
    /\ \E v \in AIOReadGPIO(Cur, channel) :
           Finish("input", <<channel>>,
              input(Cur, channel, v))
    /\ UNCHANGED wait

Output(channel, state) ==
    /\ Finish("output", <<channel, state>>,
              output_channel(Cur, channel, state))
    /\ UNCHANGED wait

OutputList(channels, state) ==
    /\ Finish("output_list", <<channels, state>>,
              output_list(Cur, channels, state))
    /\ UNCHANGED wait

AddEventDetect(channel, trigger, callback) ==
    /\ Finish("add_event_detect", <<channel, trigger, callback>>,
              add_event_detect(Cur, channel, trigger, callback))
    /\ UNCHANGED wait

RemoveEventDetect(channel) ==
    /\ Finish("remove_event_detect", <<channel>>,
              remove_event_detect(Cur, channel))
    /\ UNCHANGED wait

AddEventCallback(channel, callback) ==
    /\ Finish("add_event_callback", <<channel, callback>>,
              add_event_callback(Cur, channel, callback))
    /\ UNCHANGED wait

EventDetected(channel) ==
    /\ Finish("event_detected", <<channel>>,
              event_detected(Cur, channel))
    /\ UNCHANGED wait

Cleanup(channel) ==
    /\ Finish("cleanup", <<channel>>,
              cleanup_channel(Cur, channel))
    /\ UNCHANGED wait

CleanupList(channels) ==
    /\ Finish("cleanup_list", <<channels>>,
              cleanup_list(Cur, channels))
    /\ UNCHANGED wait

CleanupAll ==
    /\ \E keys \in KeyOrders(exports) :
           Finish("cleanup_all", <<keys>>,
              cleanup_all(Cur, keys))
    /\ UNCHANGED wait

(* wait_for_edge is called: it raises, or enters its loop. *)
WaitForEdge(channel, trigger, timeout) ==
    /\ LET r == wait_for_edge_enter(Cur, channel, trigger)
       IN  IF r.err /= "ok"
           THEN /\ Finish("wait_for_edge", <<channel, trigger, timeout>>, r)
                /\ UNCHANGED wait
           ELSE /\ \E v \in AIOReadGPIO(r.st, channel) :
                       wait' = wait_for_edge_locals(channel, trigger, timeout, v)
                /\ edge' = r.st.edge
                /\ UNCHANGED <<gpio_warnings, mode, exports, events, aio_open, pins, cbs, last>>

(* What AIOReadGPIO gives in the loop: the level of the watched input,     *)
(* which changes only when the world changes it.                           *)
WatchedRead ==
    IF wait.channel \in DOMAIN pins /\ pins[wait.channel].dir /= OUT
    THEN {wait.level}
    ELSE AIOReadGPIO(Cur, wait.channel)

(* One iteration of the loop of the wait_for_edge call in progress. *)
WaitPoll ==
    /\ wait.pc = "loop"
    /\ wait_for_edge_looping(wait)
    /\ \E v \in WatchedRead, d \in 1..ElapsedCap :
           wait' = wait_for_edge_poll(wait, v, d)
    /\ UNCHANGED <<gpio_warnings, mode, exports, events, aio_open, pins, edge, cbs, last>>

(* The world changes the level of the input a wait_for_edge call watches. *)
LevelChange ==
    /\ wait.pc = "loop"
    /\ wait' = [wait EXCEPT !.level = IF @ = LOW THEN HIGH ELSE LOW]
    /\ UNCHANGED <<gpio_warnings, mode, exports, events, aio_open, pins, edge, cbs, last>>

(* The loop has ended: the call disarms the edge flag and returns. *)
WaitReturn ==
    /\ wait.pc = "loop"
    /\ ~wait_for_edge_looping(wait)
    /\ Finish("wait_for_edge", <<wait.channel, wait.trigger, wait.timeout>>,
              wait_for_edge_leave(Cur, wait))
    /\ wait' = [wait EXCEPT !.pc = "done"]

(* The <<direction, initial, lv>> of a setup call: lv is read only when    *)
(* the pin is added as an output.                                          *)
SetupArgs ==
    {a \in Directions \X ({None} \cup Levels) \X Levels :
        (a[1] = OUT /\ a[2] /= HIGH) \/ a[3] = LOW}

(* One thread of control: no call starts while wait_for_edge blocks or     *)
(* before the call before it has returned.                                 *)
Next ==
    \/ Idle /\ GetMode
    \/ Idle /\ \E m \in ModeArgs, rc \in {0, 1} : SetMode(m, rc)
    \/ Idle /\ \E enabled \in BOOLEAN : SetWarnings(enabled)
    \/ Idle /\ \E channel \in Channels, a \in SetupArgs :
                  Setup(channel, a[1], a[2], a[3])
    \/ Idle /\ \E channels \in ChannelLists, a \in SetupArgs :
                  SetupList(channels, a[1], a[2], a[3])
    \/ Idle /\ \E channel \in Channels : Input(channel)
    \/ Idle /\ \E channel \in Channels, state \in Levels : Output(channel, state)
    \/ Idle /\ \E channels \in ChannelLists, state \in Levels : OutputList(channels, state)
    \/ Idle /\ \E channel \in Channels, trigger \in Triggers \cup {NONE},
                  callback \in {None} \cup Callbacks :
                  AddEventDetect(channel, trigger, callback)
    \/ Idle /\ \E channel \in Channels : RemoveEventDetect(channel)
    \/ Idle /\ \E channel \in Channels, callback \in Callbacks :
                  AddEventCallback(channel, callback)
    \/ Idle /\ \E channel \in Channels : EventDetected(channel)
    \/ Idle /\ \E channel \in Channels : Cleanup(channel)
    \/ Idle /\ \E channels \in ChannelLists : CleanupList(channels)
    \/ Idle /\ CleanupAll
    \/ Idle /\ \E channel \in Channels, trigger \in Triggers \cup {NONE},
                  timeout \in Timeouts :
                  WaitForEdge(channel, trigger, timeout)
    \/ Return
    \/ WaitPoll
    \/ WaitReturn
    \/ LevelChange

Spec == Init /\ [][Next]_vars

(* The thread that runs wait_for_edge keeps running: the loop iterates and *)
(* the call returns once the loop has ended.  Nothing makes the world      *)
(* change a level.                                                         *)
FairSpec == Spec /\ WF_vars(WaitPoll) /\ WF_vars(WaitReturn)

(* A second thread of the application calls add_event_detect while          *)
(* wait_for_edge blocks the first one in its loop.                         *)
ThreadAddEventDetect(channel, trigger, callback) ==
    /\ wait.pc = "loop"
    /\ last = NoCall
    /\ Finish("add_event_detect", <<channel, trigger, callback>>,
              add_event_detect(Cur, channel, trigger, callback))
    /\ UNCHANGED wait

ThreadedNext ==
    \/ Next
    \/ \E channel \in Channels, trigger \in Triggers \cup {NONE},
          callback \in {None} \cup Callbacks :
          ThreadAddEventDetect(channel, trigger, callback)

(* The application runs add_event_detect in a thread of its own. *)
ThreadedSpec == Init /\ [][ThreadedNext]_vars

(* ---------------------------------------------------------------------- *)
(* Properties                                                              *)
(* ---------------------------------------------------------------------- *)

Range(s) == {s[i] : i \in DOMAIN s}
SetupInputs == Directions \X ({None} \cup Levels) \X Levels
SameRegistries(st) == st.exports = exports /\ st.events = events
SameBoard(st) ==
    st.aio_open = aio_open /\ st.pins = pins /\ st.edge = edge /\ st.cbs = cbs

(* C1: in every reachable state and for every channel c, input(c) raises   *)
(* "not configured" exactly when _exports has no entry for c; with an      *)
(* entry, whatever its direction, it raises nothing, returns the value     *)
(* AIOReadGPIO(c) gave and changes nothing.                                *)
C1_InputFailsIffNotConfigured ==
    Idle =>
    \A c \in Channels : \A v \in AIOReadGPIO(Cur, c) :
        LET r == input(Cur, c, v)
        IN  /\ (r.err = "ChannelNotConfigured") <=> (c \notin DOMAIN exports)
            /\ c \in DOMAIN exports =>
                  /\ r.err = "ok"
                  /\ r.ret = v
                  /\ r.st.calls = <<(<<"AIOReadGPIO", c>>)>>
                  /\ SameRegistries(r.st) /\ SameBoard(r.st)

(* input has returned the level of a channel configured as an output. *)
C1_Witness ==
    \E c \in Channels :
        /\ last.op = "input" /\ last.arg = <<c>> /\ last.err = "ok"
        /\ c \in DOMAIN exports /\ exports[c] = OUT
        /\ last.ret = pins[c].level

(* C2: for every channel c with an entry in _exports, setup(c, d) raises   *)
(* "already configured" for every direction and initial value, as a single *)
(* channel and as a one-element list, calls nothing of ArmbianIO and       *)
(* changes nothing; and an entry only ever disappears in a cleanup call.   *)
C2_Inv ==
    Idle =>
    \A c \in DOMAIN exports : \A a \in SetupInputs :
        LET r == setup_channel(Cur, c, a[1], a[2], a[3])
            rl == setup_list(Cur, <<c>>, a[1], a[2], a[3])
        IN  /\ r.err = "AlreadyConfigured" /\ rl.err = "AlreadyConfigured"
            /\ r.st = Cur /\ rl.st = Cur

C2_SetupFailsUntilCleanup ==
    /\ []C2_Inv
    /\ [][\A c \in DOMAIN exports :
             c \notin DOMAIN exports' =>
                 last'.op \in {"cleanup", "cleanup_list", "cleanup_all"}]_vars

(* setup(c, IN) has been refused on a channel configured OUT, which is     *)
(* still configured OUT.                                                   *)
C2_Witness ==
    \E c \in Channels :
        /\ last.op = "setup" /\ last.arg = <<c, DirIN, None>>
        /\ last.err = "AlreadyConfigured" /\ ~last.acted
        /\ c \in DOMAIN exports /\ exports[c] = OUT

(* C3: whenever _events has an entry for c, wait_for_edge(c, t) raises the *)
(* conflict error for every trigger t, without a call of AIOWriteGPIOEdge  *)
(* and without a change of _events or of anything else.                    *)
C3_WaitConflictsWithEvent ==
    Idle =>
    \A c \in DOMAIN events : \A t \in Triggers :
        LET r == wait_for_edge_enter(Cur, c, t)
        IN  r.err = "EventConflict" /\ r.st = Cur

(* wait_for_edge(c, FALLING) has been refused on a channel with a RISING   *)
(* event, and the edge flag of c is not armed.                             *)
C3_Witness ==
    \E c \in Channels :
        /\ last.op = "wait_for_edge" /\ last.arg[1] = c /\ last.arg[2] = FALLING
        /\ last.err = "EventConflict" /\ ~last.acted
        /\ c \in DOMAIN events /\ events[c] = RISING
        /\ edge[c] = NONE /\ wait.pc = "idle"

C5_SetModeBoardNotDetected ==
    (Idle /\ mode = None) =>
        \A m \in ModeArgs :
            LET r == setmode(Cur, m, 0)
            IN  /\ r.err = "BoardNotDetected"
                /\ r.st.mode = None
                /\ SameRegistries(r.st)
                /\ \A c \in Channels, a \in SetupInputs :
                       setup_channel(r.st, c, a[1], a[2], a[3]).err = "ModeNotSet"
                /\ \A cs \in ChannelLists, a \in SetupInputs :
                       setup_list(r.st, cs, a[1], a[2], a[3]).err = "ModeNotSet"

(* setmode(BCM) has failed on an undetected board and the session is unset. *)
C5_Witness ==
    /\ last.op = "setmode" /\ last.arg = <<BCM>> /\ last.err = "BoardNotDetected"
    /\ mode = None /\ ~aio_open

(* C6: with the session active, setup of a non-empty list of distinct,     *)
(* unconfigured channels raises nothing and leaves every channel of the    *)
(* list configured with the direction given; and when that is OUT, output  *)
(* of the same list raises nothing and writes the state to every channel.  *)
C6_ListSetupThenOutput ==
    mode /= None =>
        \A cs \in ChannelLists \ {<<>>} : \A a \in SetupInputs : \A s \in Levels :
            (Distinct(cs) /\ Range(cs) \cap DOMAIN exports = {}) =>
                LET r == setup_list(Cur, cs, a[1], a[2], a[3])
                    o == output_list([r.st EXCEPT !.calls = <<>>], cs, s)
                IN  /\ r.err = "ok"
                    /\ \A c \in Range(cs) :
                           c \in DOMAIN r.st.exports /\ r.st.exports[c] = a[1]
                    /\ a[1] = OUT =>
                           /\ o.err = "ok"
                           /\ o.st.calls = [i \in DOMAIN cs |-> <<"AIOWriteGPIO", cs[i], s>>]

(* C7: cleanup of a list of configured channels, of up to MaxList + 1       *)
(* elements, removes the _exports entries, the _events entries, the pins   *)
(* and the callbacks of exactly the channels of the list; every other      *)
(* channel keeps its entries, its pin and its callback as they were, input *)
(* of it still raises nothing, and _mode is unchanged.                     *)
C7_ListCleanupRemovesList ==
    Idle =>
    \A cs \in ListsUpTo(MaxList + 1) :
        Range(cs) \subseteq DOMAIN exports =>
            LET r == cleanup_list(Cur, cs)
                keep(f) == [c \in (DOMAIN f) \ Range(cs) |-> f[c]]
            IN  /\ r.st.exports = keep(exports)
                /\ r.st.events = keep(events)
                /\ r.st.pins = keep(pins)
                /\ r.st.cbs = keep(cbs)
                /\ r.st.mode = mode /\ r.st.aio_open = aio_open
                /\ \A c \in (DOMAIN exports) \ Range(cs) :
                       \A v \in AIOReadGPIO(r.st, c) : input(r.st, c, v).err = "ok"

(* What holds of C7: cleanup of a list whose elements are each configured  *)
(* when their turn comes (configured channels, none named twice) raises    *)
(* nothing and removes the _exports entries, the _events entries, the pins *)
(* and the callbacks of exactly the channels of the list; and for every    *)
(* list of configured channels, every channel outside the list keeps its   *)
(* entries, its pin and its callback as they were, input of it still       *)
(* raises nothing, and _mode is unchanged.                                 *)
C7_ListCleanupFrame ==
    Idle =>
    \A cs \in ChannelLists :
        Range(cs) \subseteq DOMAIN exports =>
            LET r == cleanup_list(Cur, cs)
                keep(f) == [c \in (DOMAIN f) \ Range(cs) |-> f[c]]
                rest(f) == [c \in (DOMAIN f) \ Range(cs) |-> f[c]]
            IN  /\ Distinct(cs) =>
                       /\ r.err = "ok"
                       /\ r.st.exports = keep(exports)
                       /\ r.st.events = keep(events)
                       /\ r.st.pins = keep(pins)
                       /\ r.st.cbs = keep(cbs)
                /\ rest(r.st.exports) = rest(exports)
                /\ rest(r.st.events) = rest(events)
                /\ rest(r.st.pins) = rest(pins)
                /\ rest(r.st.cbs) = rest(cbs)
                /\ r.st.mode = mode /\ r.st.aio_open = aio_open
                /\ \A c \in (DOMAIN exports) \ Range(cs) :
                       \A v \in AIOReadGPIO(r.st, c) : input(r.st, c, v).err = "ok"

(* cleanup of a non-empty list of distinct channels has ended: its         *)
(* channels are gone, and a channel outside the list still has its entry,  *)
(* its pin and its event.                                                  *)
C7_Witness ==
    \E c \in Channels :
        /\ last.op = "cleanup_list" /\ last.arg[1] /= <<>> /\ last.err = "ok"
        /\ Distinct(last.arg[1])
        /\ c \notin Range(last.arg[1])
        /\ Range(last.arg[1]) \cap DOMAIN exports = {}
        /\ c \in DOMAIN exports /\ c \in DOMAIN pins /\ c \in DOMAIN events

(* What cleanup() is to leave behind: the state the module starts in. *)
Pristine(st) ==
    /\ st.exports = Empty /\ st.events = Empty
    /\ st.pins = Empty /\ st.cbs = Empty
    /\ st.edge = [c \in Channels |-> NONE]
    /\ st.mode = None /\ st.gpio_warnings = TRUE /\ ~st.aio_open

(* C8: from every reachable state in which a call can be made, cleanup()   *)
(* raises nothing, ends with AIOShutdown and leaves the state the module   *)
(* starts in: no entry in _exports or _events, no pin and no callback in   *)
(* ArmbianIO, _mode unset, warnings on, the session shut down; and a       *)
(* second cleanup() right after it does the same.                          *)
C8_GlobalCleanupResets ==
    Idle =>
        \A keys \in KeyOrders(exports) :
            LET r == cleanup_all(Cur, keys)
                r2 == cleanup_all([r.st EXCEPT !.calls = <<>>], <<>>)
            IN  /\ r.err = "ok" /\ Pristine(r.st)
                /\ r.st.calls /= <<>> /\ r.st.calls[Len(r.st.calls)] = <<"AIOShutdown">>
                /\ r2.err = "ok" /\ Pristine(r2.st)
                /\ r2.st.calls = <<(<<"AIOShutdown">>)>>

(* cleanup() has run with every channel configured (last.arg is the list   *)
(* of keys it walked) and has left the initial state.                      *)
C8_Witness ==
    /\ last.op = "cleanup_all" /\ last.err = "ok" /\ last.acted
    /\ Range(last.arg[1]) = Channels
    /\ Pristine(Cur)

(* C9: a wait_for_edge call with timeout > 0 that is in its loop returns,  *)
(* whatever the reads give and so also when the level never changes; and   *)
(* whenever wait_for_edge returns, the edge flag of its channel is NONE    *)
(* and _events has no entry for it, so that add_event_detect on it then    *)
(* raises nothing.                                                         *)
C9_TimedWaitReturns ==
    /\ (wait.pc = "loop" /\ wait.timeout > 0) ~> (wait.pc = "done")
    /\ [][WaitReturn =>
            LET c == wait.channel
            IN  /\ last'.err = "ok" /\ last'.ret = c
                /\ edge'[c] = NONE
                /\ c \notin DOMAIN events'
                /\ \A t \in Triggers, cb \in {None} \cup Callbacks :
                       add_event_detect(Cur', c, t, cb).err = "ok"]_vars

(* A wait for BOTH with timeout > 0 has returned by timeout, no read       *)
(* having differed from the first one: the edge flag is NONE, there is no  *)
(* event entry, and add_event_detect on the channel is accepted.           *)
C9_Witness ==
    /\ wait.pc = "done" /\ wait.timeout > 0 /\ wait.trigger = BOTH
    /\ wait.timeoutExit /\ ~wait.valueExit /\ wait.level = wait.originalValue
    /\ last.op = "wait_for_edge" /\ last.err = "ok" /\ last.ret = wait.channel
    /\ edge[wait.channel] = NONE /\ wait.channel \notin DOMAIN events
    /\ add_event_detect(Cur, wait.channel, RISING, None).err = "ok"

C11_NoEventAlwaysNoEventRegistered ==
    Idle =>
    \A c \in Channels :
        c \notin DOMAIN events =>
            remove_event_detect(Cur, c).err = "NoEventRegistered"

(* C11 as amended: remove_event_detect(c) raises "not configured" when c   *)
(* has no entry in _exports, the wrong-direction error when c is           *)
(* configured OUT, and "no event exists" when c is configured IN without   *)
(* an entry in _events, changing nothing in the three cases; otherwise it  *)
(* calls AIORemoveGPIOCallback(c) and nothing else, deletes the _events    *)
(* entry and the callback of c and leaves _exports, the pins and the       *)
(* entries of every other channel as they were.                            *)
C11_RemoveEventDetect ==
    Idle =>
    \A c \in Channels :
        LET r == remove_event_detect(Cur, c)
        IN  IF c \notin DOMAIN exports
            THEN r.err = "ChannelNotConfigured" /\ r.st = Cur
            ELSE IF exports[c] = OUT
            THEN r.err = "WrongDirection" /\ r.st = Cur
            ELSE IF c \notin DOMAIN events
            THEN r.err = "NoEventRegistered" /\ r.st = Cur
            ELSE /\ r.err = "ok"
                 /\ r.st.calls = <<(<<"AIORemoveGPIOCallback", c>>)>>
                 /\ r.st.events = Del(events, c)
                 /\ r.st.cbs = Del(cbs, c)
                 /\ r.st.exports = exports /\ r.st.pins = pins
                 /\ r.st.edge = edge /\ r.st.mode = mode

(* remove_event_detect has been refused with "not configured" on a channel *)
(* that has neither a configuration entry nor an event entry.              *)
C11_Witness ==
    \E c \in Channels :
        /\ last.op = "remove_event_detect" /\ last.arg = <<c>>
        /\ last.err = "ChannelNotConfigured" /\ last.calls = <<>>
        /\ c \notin DOMAIN exports /\ c \notin DOMAIN events

(* C12: cleanup of a list does not stop at an element that is not          *)
(* configured: every channel of the list that has an entry in _exports     *)
(* when cleanup is called has none when it ends, whatever comes before it  *)
(* in the list.                                                            *)
C12_ListCleanupDoesNotStop ==
    Idle =>
    \A cs \in ChannelLists :
        LET r == cleanup_list(Cur, cs)
        IN  \A c \in Range(cs) \cap DOMAIN exports : c \notin DOMAIN r.st.exports

(* C13: output(c, s) calls AIOWriteGPIO(c, s), and nothing else, exactly   *)
(* when c is configured OUT; it raises "not configured" when c has no      *)
(* entry and the wrong-direction error when c is configured IN, calling    *)
(* nothing; output of a list writes the elements before the first one that *)
(* is not configured OUT, raises the error of that one and writes none     *)
(* after it; no form changes _exports or _events.                          *)
C13_OutputOnlyWhenOut ==
    Idle =>
    /\ \A c \in Channels, s \in Levels :
           LET r == output_channel(Cur, c, s)
           IN  /\ SameRegistries(r.st)
               /\ IF c \notin DOMAIN exports
                  THEN r.err = "ChannelNotConfigured" /\ r.st = Cur
                  ELSE IF exports[c] = DirIN
                  THEN r.err = "WrongDirection" /\ r.st = Cur
                  ELSE /\ r.err = "ok"
                       /\ r.st.calls = <<(<<"AIOWriteGPIO", c, s>>)>>
                       /\ pins[c].dir = OUT => r.st.pins[c].level = s
    /\ \A cs \in ChannelLists, s \in Levels :
           LET r == output_list(Cur, cs, s)
               bad == {i \in DOMAIN cs :
                          cs[i] \notin DOMAIN exports \/ exports[cs[i]] /= OUT}
               k == IF bad = {} THEN Len(cs) + 1
                    ELSE CHOOSE i \in bad : \A j \in bad : i <= j
           IN  /\ SameRegistries(r.st)
               /\ r.st.calls = [i \in 1..(k - 1) |-> <<"AIOWriteGPIO", cs[i], s>>]
               /\ bad = {} => r.err = "ok"
               /\ bad /= {} =>
                      r.err = IF cs[k] \in DOMAIN exports THEN "WrongDirection"
                              ELSE "ChannelNotConfigured"

(* output([a, b], HIGH) has ended with the wrong-direction error of b,     *)
(* configured IN, after writing HIGH to a, configured OUT.                 *)
C13_Witness ==
    \E a, b \in Channels :
        /\ last.op = "output_list" /\ last.arg = <<(<<a, b>>), HIGH>>
        /\ last.err = "WrongDirection"
        /\ last.calls = <<(<<"AIOWriteGPIO", a, HIGH>>)>>
        /\ exports[a] = OUT /\ exports[b] = DirIN
        /\ pins[a].dir = OUT /\ pins[a].level = HIGH

(* C14: with the mode set and c not configured, setup(c, OUT, initial = v) *)
(* for v = HIGH and for v = LOW raises nothing, records OUT in _exports    *)
(* and adds the pin of c as an output: the direction AIOAddGPIO gets is    *)
(* the direction recorded; and setup(c, d) without initial adds the pin    *)
(* in direction d.                                                         *)
C14_InitialKeepsDirection ==
    (Idle /\ mode /= None) =>
        \A c \in Channels \ DOMAIN exports, lv \in Levels :
            /\ \A v \in Levels :
                   LET r == setup_channel(Cur, c, OUT, v, lv)
                   IN  /\ r.err = "ok"
                       /\ r.st.exports[c] = OUT
                       /\ r.st.calls = <<(<<"AIOAddGPIO", c, OUT>>)>>
                       /\ r.st.pins[c].dir = r.st.exports[c]
            /\ \A d \in Directions :
                   LET r == setup_channel(Cur, c, d, None, lv)
                   IN  /\ r.err = "ok"
                       /\ r.st.exports[c] = d
                       /\ r.st.pins[c].dir = d

(* C15: while a wait_for_edge call on c is in its loop, _events has no     *)
(* entry for c, and an add_event_detect(c, t) another thread has made      *)
(* meanwhile, t one of RISING, FALLING and BOTH, has raised the conflict   *)
(* error.                                                                  *)
C15_OneWatchPerChannel ==
    wait.pc = "loop" =>
        /\ wait.channel \notin DOMAIN events
        /\ (/\ last.op = "add_event_detect"
            /\ last.arg[1] = wait.channel
            /\ last.arg[2] \in Triggers) => last.err = "EventConflict"

(* C16: in every reachable state, whatever calls have been made and        *)
(* whether they raised or not, every channel with an entry in _events has  *)
(* an entry in _exports with direction IN; so a cleanup that removes the   *)
(* _exports entry of a channel leaves no _events entry of it.              *)
C16_EventImpliesInput ==
    \A c \in DOMAIN events : c \in DOMAIN exports /\ exports[c] = DirIN

(* cleanup(c) of a channel with an event has ended: it has unregistered    *)
(* the callback and removed the pin, and c has neither a configuration     *)
(* entry nor an event entry.                                               *)
C16_Witness ==
    \E c \in Channels :
        /\ last.op = "cleanup" /\ last.arg = <<c>> /\ last.err = "ok"
        /\ last.calls = <<(<<"AIORemoveGPIOCallback", c>>), (<<"AIORemoveGPIO", c>>)>>
        /\ c \notin DOMAIN exports /\ c \notin DOMAIN events

(* C17: an iteration of the loop of wait_for_edge(c, t) sets valueExit     *)
(* exactly when its sample differs from originalValue and, for t = RISING, *)
(* is HIGH, for t = FALLING, is LOW (for t = BOTH every differing sample   *)
(* does); a sample equal to originalValue leaves it; a differing sample of *)
(* the wrong level makes it the new originalValue without ending the loop, *)
(* and the next sample that differs from that one sets valueExit; and      *)
(* whenever valueExit is set for RISING or FALLING, the sample that set it *)
(* (originalValue by then) is HIGH or LOW respectively.                    *)
C17_TransitionPolarity ==
    /\ (wait.pc = "loop" /\ wait_for_edge_looping(wait)) =>
           \A v \in Levels, d \in 1..ElapsedCap :
               LET w2 == wait_for_edge_poll(wait, v, d)
                   t == wait.trigger
                   differs == v /= wait.originalValue
                   qualifies == \/ t = BOTH
                                \/ t = RISING /\ v = HIGH
                                \/ t = FALLING /\ v = LOW
               IN  /\ w2.valueExit <=> (differs /\ qualifies)
                   /\ ~differs => w2.originalValue = wait.originalValue
                   /\ (differs /\ ~qualifies) =>
                          /\ w2.originalValue = v
                          /\ \A v2 \in Levels \ {v}, d2 \in 1..ElapsedCap :
                                 wait_for_edge_poll(w2, v2, d2).valueExit
    /\ (wait.pc /= "idle" /\ wait.valueExit) =>
           /\ wait.trigger = RISING => wait.originalValue = HIGH
           /\ wait.trigger = FALLING => wait.originalValue = LOW

(* wait_for_edge(c, RISING) has returned on a rise to HIGH that came after *)
(* a fall, which had only moved originalValue.                             *)
C17_Witness ==
    /\ wait.pc = "done" /\ wait.trigger = RISING
    /\ wait.rebased /\ wait.valueExit /\ ~wait.timeoutExit
    /\ wait.originalValue = HIGH
    /\ last.op = "wait_for_edge" /\ last.ret = wait.channel

(* C18: the edge flag of a channel differs from NONE only while a          *)
(* wait_for_edge call on that channel is in its loop, where it is the      *)
(* trigger of the call; a call that has returned, by a transition or by    *)
(* timeout, has written NONE as its last step; and a wait_for_edge that    *)
(* raises (not configured, wrong direction, invalid trigger, conflict)     *)
(* calls nothing and changes nothing.                                      *)
C18_EdgeDisarmed ==
    /\ \A c \in Channels :
           edge[c] /= NONE => (wait.pc = "loop" /\ wait.channel = c)
    /\ wait.pc = "loop" => edge[wait.channel] = wait.trigger
    /\ wait.pc = "done" =>
           /\ edge[wait.channel] = NONE
           /\ last.op = "wait_for_edge" /\ last.err = "ok"
           /\ last.calls = <<(<<"AIOWriteGPIOEdge", wait.channel, NONE>>)>>
    /\ Idle =>
           \A c \in Channels, t \in Triggers \cup {NONE} :
               LET r == wait_for_edge_enter(Cur, c, t)
               IN  r.err /= "ok" => r.st = Cur

(* wait_for_edge(c, BOTH) has returned on a transition and the edge flag   *)
(* of c, armed during the wait, is NONE.                                   *)
C18_Witness ==
    /\ wait.pc = "done" /\ wait.trigger = BOTH
    /\ wait.valueExit /\ ~wait.timeoutExit
    /\ edge[wait.channel] = NONE
    /\ last.calls = <<(<<"AIOWriteGPIOEdge", wait.channel, NONE>>)>>

(* The channels with an entry in _exports are the channels with a pin in   *)
(* ArmbianIO, and every registered callback is of a channel with an entry  *)
(* in _events.                                                             *)
C19_Inv ==
    /\ DOMAIN pins = DOMAIN exports
    /\ DOMAIN cbs \subseteq DOMAIN events

(* C19: C19_Inv holds in every reachable state, so after every call,       *)
(* whether it raised or not, of one channel or of a list; and among the    *)
(* ArmbianIO calls of a call that has ended, AIOAddGPIO is made only for a *)
(* channel without a pin and AIORemoveGPIO only for a channel with one,    *)
(* never twice for the same channel, and AIORemoveGPIOCallback only for a  *)
(* channel with an entry in _events.                                       *)
C19_PinsMatchExports ==
    /\ []C19_Inv
    /\ [][LET cl == last'.calls
          IN  \A i \in DOMAIN cl :
                  /\ cl[i][1] = "AIOAddGPIO" =>
                         /\ cl[i][2] \notin DOMAIN pins
                         /\ cl[i][2] \in DOMAIN pins'
                  /\ cl[i][1] = "AIORemoveGPIO" =>
                         /\ cl[i][2] \in DOMAIN pins
                         /\ cl[i][2] \notin DOMAIN pins'
                  /\ cl[i][1] = "AIORemoveGPIOCallback" => cl[i][2] \in DOMAIN events
                  /\ \A j \in DOMAIN cl :
                         (j /= i /\ cl[j] = cl[i]) =>
                             cl[i][1] \notin {"AIOAddGPIO", "AIORemoveGPIO"}]_vars

(* setup of a list has failed on an element already configured after       *)
(* adding the pins of the elements before it: those are configured, and    *)
(* the pins are still the configured channels.                             *)
C19_Witness ==
    /\ last.op = "setup_list" /\ last.err = "AlreadyConfigured" /\ last.calls /= <<>>
    /\ \A i \in DOMAIN last.calls : last.calls[i][2] \in DOMAIN exports
    /\ DOMAIN pins = DOMAIN exports

(* C20: whenever a session opened by a successful AIOInit has not been     *)
(* shut down, setmode(m) calls nothing of ArmbianIO, for every m, and for  *)
(* m one of BOARD and BCM it changes _mode to m and nothing else.          *)
C20_InitOnlyWhenClosed ==
    (Idle /\ aio_open) =>
        \A m \in ModeArgs, rc \in {0, 1} :
            LET r == setmode(Cur, m, rc)
            IN  /\ r.st.calls = <<>>
                /\ m \in {BOARD, BCM} => r.st = [Cur EXCEPT !.mode = m]

====
